---- MODULE Spec2Model ----
(***************************************************************************)
(* Model of pkg/auth (auth.go), the client side of Auth0's Device          *)
(* Authorization Flow, and of its command line (cmd.go).  One              *)
(* DeviceAuthFlow is constructed from options and then serves              *)
(* FetchDeviceCode and PollToken calls, one at a time (Spec); a response   *)
(* value goes through json.Marshal and json.Unmarshal (SpecRoundTrip); two *)
(* flows are used by two goroutines at once (SpecTwo); Main runs to its    *)
(* end while time goes on during every wait (SpecLive).                    *)
(*                                                                         *)
(* Time is counted in whole seconds.  Strings that end up in a form body   *)
(* or in a JSON document (client ID, scope, audience, the strings of the   *)
(* two responses) are sequences of one-letter strings, so that escaping    *)
(* and encoding can be computed letter by letter; every other string is a  *)
(* TLA+ string.                                                            *)
(***************************************************************************)
EXTENDS Integers, Sequences, FiniteSets, TLC

(***************************************************************************)
(* Bounds of the model.                                                    *)
(***************************************************************************)
\* largest value the time source reaches
MaxTime == 20
\* largest number of token requests followed within one PollToken call
MaxPolls == 5
\* largest number of options passed to NewDeviceAuthFlow
MaxOpts == 3
\* token requests of each of two flows running at once
MaxTwoPolls == 2

(***************************************************************************)
(* Values.                                                                 *)
(***************************************************************************)
\* Go's nil (pointer, error or byte slice)
Nil == [type |-> "nil"]

\* amounts by which the time source moves while a request, a sleep or the
\* caller's own work is going on
ClockSteps == {0, 5}

ClockAfter(t) == {t + d : d \in ClockSteps} \cap (0..MaxTime)

GoodBaseURL == "https://example.auth0.com"
\* url.Parse fails on it ("missing protocol scheme")
BadBaseURL == ":example"
BaseURLs == {"", GoodBaseURL, BadBaseURL}

ClientIDs == {<< >>, <<"i", "d">>, <<"i", "&", "d">>}
Scopes == {<<"o", " ", "p">>, <<"a", "&", "b">>}
Audiences == {<<"h", ":", "/", "x">>}

ExpiresInValues == {-5, 0, 20}
IntervalValues == {1, 5}

(***************************************************************************)
(* JSON bodies.  A body is either a JSON object, given by its members, or  *)
(* bytes that json.Unmarshal rejects.                                      *)
(***************************************************************************)
EmptyObject == [k \in {} |-> 0]

Object(members) == [valid |-> TRUE, obj |-> members]

InvalidBody == [valid |-> FALSE, obj |-> EmptyObject]

DeviceCodeBodies ==
    { Object([device_code |-> <<"d", "c">>,
              user_code |-> <<"1", "2", "3">>,
              verification_uri |-> <<"h", ":", "/", "a">>,
              verification_uri_complete |-> <<"h", ":", "/", "a", "?", "1">>,
              expires_in |-> e,
              interval |-> i]) : e \in ExpiresInValues, i \in IntervalValues }

TokenBodies ==
    { Object([access_token |-> <<"a", "t">>,
              refresh_token |-> <<"r", "t">>,
              id_token |-> <<"i", "t">>,
              token_type |-> <<"B">>,
              expires_in |-> 86400]) }

ErrorBodies ==
    { Object([error |-> "authorization_pending",
              error_description |-> "User has yet to authorize device code."]),
      Object([error |-> "access_denied",
              error_description |-> "User cancelled the confirmation prompt."]) }

Statuses == {200, 403, 499, 500}

\* what postForm hands back: (statusCode, resBody, err)
TransportFailure == [statusCode |-> 0, resBody |-> Nil, err |-> "request was failed"]

HTTPResult(status, body) == [statusCode |-> status, resBody |-> body, err |-> "nil"]

NoResult == [statusCode |-> -1, resBody |-> Nil, err |-> "nil"]

Member(o, key, zero) == IF key \in DOMAIN o THEN o[key] ELSE zero

\* a decoding that takes any bytes for an empty object
UnmarshalErrorLenient(body) ==
    IF body = Nil \/ ~body.valid
    THEN [ok |-> TRUE, v |-> [Error |-> "", ErrorDescription |-> ""]]
    ELSE [ok |-> TRUE,
          v |-> [Error |-> Member(body.obj, "error", ""),
                 ErrorDescription |-> Member(body.obj, "error_description", "")]]

\* json.Unmarshal(resBody, new(ErrorResponse))
UnmarshalErrorResponse(body) ==
    IF body = Nil \/ ~body.valid
    THEN [ok |-> FALSE, v |-> Nil]
    ELSE [ok |-> TRUE,
          v |-> [Error |-> Member(body.obj, "error", ""),
                 ErrorDescription |-> Member(body.obj, "error_description", "")]]

\* json.Unmarshal(resBody, new(TokenResponse))
UnmarshalTokenResponse(body) ==
    IF body = Nil \/ ~body.valid
    THEN [ok |-> FALSE, v |-> Nil]
    ELSE [ok |-> TRUE,
          v |-> [AccessToken |-> Member(body.obj, "access_token", << >>),
                 RefreshToken |-> Member(body.obj, "refresh_token", << >>),
                 IdToken |-> Member(body.obj, "id_token", << >>),
                 TokenType |-> Member(body.obj, "token_type", << >>),
                 ExpiresIn |-> Member(body.obj, "expires_in", 0)]]

\* json.Unmarshal(resBody, new(DeviceCodeResponse)); ExpiresAt has the tag
\* json:"-" and keeps the zero time, which lies before every clock reading
ZeroTime == -1

\* the decoding with the tags of expires_in and interval exchanged
UnmarshalDeviceCodeSwapped(body) ==
    IF body = Nil \/ ~body.valid
    THEN [ok |-> FALSE, v |-> Nil]
    ELSE [ok |-> TRUE,
          v |-> [DeviceCode |-> Member(body.obj, "device_code", << >>),
                 UserCode |-> Member(body.obj, "user_code", << >>),
                 VerificationURI |-> Member(body.obj, "verification_uri", << >>),
                 VerificationURIComplete |-> Member(body.obj, "verification_uri_complete", << >>),
                 ExpiresIn |-> Member(body.obj, "interval", 0),
                 Interval |-> Member(body.obj, "expires_in", 0),
                 ExpiresAt |-> ZeroTime]]

UnmarshalDeviceCodeResponse(body) ==
    IF body = Nil \/ ~body.valid
    THEN [ok |-> FALSE, v |-> Nil]
    ELSE [ok |-> TRUE,
          v |-> [DeviceCode |-> Member(body.obj, "device_code", << >>),
                 UserCode |-> Member(body.obj, "user_code", << >>),
                 VerificationURI |-> Member(body.obj, "verification_uri", << >>),
                 VerificationURIComplete |-> Member(body.obj, "verification_uri_complete", << >>),
                 ExpiresIn |-> Member(body.obj, "expires_in", 0),
                 Interval |-> Member(body.obj, "interval", 0),
                 ExpiresAt |-> ZeroTime]]

(***************************************************************************)
(* Errors.                                                                 *)
(***************************************************************************)
APIError(statusCode, er) == [type |-> "APIError", StatusCode |-> statusCode, Body |-> er]

ExpiredError(expiresIn) == [type |-> "ExpiredError", ExpiresIn |-> expiresIn]

\* errors.New / fmt.Errorf
GenericError(msg) == [type |-> "error", msg |-> msg]

(***************************************************************************)
(* net/url helpers.                                                        *)
(***************************************************************************)
\* neturl.JoinPath(base, elem): parses base, then joins the path
JoinPath(base, elem) ==
    IF base = BadBaseURL
    THEN [ok |-> FALSE, url |-> ""]
    ELSE [ok |-> TRUE, url |-> base \o elem]

Unreserved == {"a", "b", "c", "d", "e", "h", "i", "o", "p", "x", "-", "_", ".", "~"}

\* two hexadecimal digits of the letters that get escaped
Hex(c) ==
    CASE c = "&" -> <<"2", "6">>
      [] c = "=" -> <<"3", "D">>
      [] c = "%" -> <<"2", "5">>
      [] c = "+" -> <<"2", "B">>
      [] c = "/" -> <<"2", "F">>
      [] c = ":" -> <<"3", "A">>
      [] OTHER -> <<"0", "0">>

RECURSIVE QueryEscape(_)
\* neturl.QueryEscape(s)
QueryEscape(s) ==
    IF s = << >> THEN << >>
    ELSE LET c == Head(s)
             e == IF c \in Unreserved THEN <<c>>
                  ELSE IF c = " " THEN <<"+">>
                  ELSE <<"%">> \o Hex(c)
         IN  e \o QueryEscape(Tail(s))

\* fmt.Sprintf("client_id=%s&scope=%s&audience=%s", ...)
DeviceCodePayload(clientID, scope, audience) ==
    <<"c", "l", "i", "e", "n", "t", "_", "i", "d", "=">> \o clientID
    \o <<"&", "s", "c", "o", "p", "e", "=">> \o QueryEscape(scope)
    \o <<"&", "a", "u", "d", "i", "e", "n", "c", "e", "=">> \o QueryEscape(audience)

GrantType ==
    <<"u", "r", "n", "%", "3", "A", "i", "e", "t", "f", "%", "3", "A",
      "p", "a", "r", "a", "m", "s", "%", "3", "A", "o", "a", "u", "t", "h",
      "%", "3", "A", "g", "r", "a", "n", "t", "-", "t", "y", "p", "e",
      "%", "3", "A", "d", "e", "v", "i", "c", "e", "_", "c", "o", "d", "e">>

\* fmt.Sprintf("grant_type=%s&device_code=%s&client_id=%s", ...)
TokenPayload(deviceCode, clientID) ==
    <<"g", "r", "a", "n", "t", "_", "t", "y", "p", "e", "=">> \o GrantType
    \o <<"&", "d", "e", "v", "i", "c", "e", "_", "c", "o", "d", "e", "=">> \o deviceCode
    \o <<"&", "c", "l", "i", "e", "n", "t", "_", "i", "d", "=">> \o clientID

(***************************************************************************)
(* The provider's side: how a form body is decoded (url.ParseQuery, called *)
(* by http.Request.ParseForm).                                             *)
(***************************************************************************)
\* the letter two hexadecimal digits stand for, "" when there is none
Unhex(h) ==
    CASE h = <<"2", "6">> -> "&"
      [] h = <<"3", "D">> -> "="
      [] h = <<"2", "5">> -> "%"
      [] h = <<"2", "B">> -> "+"
      [] h = <<"2", "F">> -> "/"
      [] h = <<"3", "A">> -> ":"
      [] h = <<"2", "0">> -> " "
      [] OTHER -> ""

RECURSIVE QueryUnescape(_)
\* neturl.QueryUnescape(s)
QueryUnescape(s) ==
    IF s = << >> THEN [ok |-> TRUE, v |-> << >>]
    ELSE IF Head(s) = "%"
    THEN IF Len(s) < 3 \/ Unhex(SubSeq(s, 2, 3)) = ""
         THEN [ok |-> FALSE, v |-> << >>]
         ELSE LET r == QueryUnescape(SubSeq(s, 4, Len(s)))
              IN  [ok |-> r.ok, v |-> <<Unhex(SubSeq(s, 2, 3))>> \o r.v]
    ELSE LET r == QueryUnescape(Tail(s))
         IN  [ok |-> r.ok, v |-> <<IF Head(s) = "+" THEN " " ELSE Head(s)>> \o r.v]

\* the position of the first c in s, 0 when there is none
RECURSIVE IndexOf(_, _)
IndexOf(s, c) ==
    IF s = << >> THEN 0
    ELSE IF Head(s) = c THEN 1
    ELSE LET i == IndexOf(Tail(s), c) IN IF i = 0 THEN 0 ELSE i + 1

\* one key=value piece of a form body: strings.Cut at "=", then unescape
ParsePair(piece) ==
    LET i == IndexOf(piece, "=")
        k == IF i = 0 THEN piece ELSE SubSeq(piece, 1, i - 1)
        v == IF i = 0 THEN << >> ELSE SubSeq(piece, i + 1, Len(piece))
    IN  [ok |-> QueryUnescape(k).ok /\ QueryUnescape(v).ok,
         key |-> QueryUnescape(k).v,
         value |-> QueryUnescape(v).v]

RECURSIVE ParseQuery(_)
\* neturl.ParseQuery(body): the key/value pairs in the order they come;
\* empty pieces and pieces that do not unescape are left out
ParseQuery(body) ==
    IF body = << >> THEN << >>
    ELSE LET i == IndexOf(body, "&")
             piece == IF i = 0 THEN body ELSE SubSeq(body, 1, i - 1)
             rest == IF i = 0 THEN << >> ELSE SubSeq(body, i + 1, Len(body))
             p == ParsePair(piece)
         IN  (IF piece = << >> \/ ~p.ok
              THEN << >>
              ELSE <<[key |-> p.key, value |-> p.value]>>) \o ParseQuery(rest)

\* the request postForm sends
Request(url, payload) == [method |-> "POST", url |-> url, payload |-> payload]

(***************************************************************************)
(* Construction.                                                           *)
(***************************************************************************)
Options ==
    {[opt |-> "WithBaseURL", baseURL |-> b] : b \in BaseURLs}
    \cup {[opt |-> "WithClientID", clientID |-> c] : c \in ClientIDs}
    \cup {[opt |-> "WithTimeNow", timeNow |-> "stub"],
          [opt |-> "WithTimeSleep", timeSleep |-> "stub"]}

OptionSeqs == UNION {[1..n -> Options] : n \in 0..MaxOpts}

\* &DeviceAuthFlow{timeNow: time.Now, timeSleep: time.Sleep}
NewFlow == [baseURL |-> "", clientID |-> << >>, timeNow |-> "time.Now", timeSleep |-> "time.Sleep"]

\* opt.apply(daf)
Apply(opt, d) ==
    CASE opt.opt = "WithBaseURL" -> [d EXCEPT !.baseURL = opt.baseURL]
      [] opt.opt = "WithClientID" -> [d EXCEPT !.clientID = opt.clientID]
      [] opt.opt = "WithTimeNow" -> [d EXCEPT !.timeNow = opt.timeNow]
      [] opt.opt = "WithTimeSleep" -> [d EXCEPT !.timeSleep = opt.timeSleep]

RECURSIVE ApplyAll(_, _)
\* for _, opt := range opts { opt.apply(daf) }
ApplyAll(opts, d) ==
    IF opts = << >> THEN d ELSE ApplyAll(Tail(opts), Apply(Head(opts), d))

\* the checks without the one on the client ID
ValidateBaseURLOnly(d) ==
    IF d.baseURL = "" THEN GenericError("BaseURL is not given, use WithBaseURL()")
    ELSE Nil

\* the "complete instance" checks: the error New returns, or Nil
Validate(d) ==
    IF d.baseURL = "" THEN GenericError("BaseURL is not given, use WithBaseURL()")
    ELSE IF d.clientID = << >> THEN GenericError("ClientID is not given, use WithClientID()")
    ELSE Nil

(***************************************************************************)
(* State.                                                                  *)
(***************************************************************************)
VARIABLES
    daf,        \* the flow the caller holds, Nil before construction
    built,      \* the flow as it was after the options were applied
    pc,         \* where the caller or the running call stands
    clock,      \* the value the time source returns when read
    dc,         \* the argument of the running (or last) PollToken, or Nil
    interval,   \* PollToken's local interval
    bundle,     \* the last DeviceCodeResponse the caller received, or Nil
    url,        \* local url of the running call
    payload,    \* local payload of the running call
    res,        \* (statusCode, resBody, err) of the last postForm
    now,        \* FetchDeviceCode's local now
    ret,        \* what the last finished call returned
    requests,   \* the requests the running (or last) call has sent
    sleeps,     \* the durations the running (or last) call has slept
    readings,   \* how many times the running (or last) call read the clock
    firstNow,   \* its first clock reading
    lastNow,    \* its latest clock reading
    paced,      \* every reading after the first came Interval after the one before
    pending,    \* how many of its responses were 4xx authorization_pending
    startClock, \* the clock when the call began
    respClock,  \* the clock when the last response arrived
    lastEvent,  \* the call's latest effect: "none", "now", "post" or "sleep"
    args,       \* scope and audience of the running (or last) FetchDeviceCode
    env,        \* the environment Main was started in, Nil when the caller is not Main
    mainpc,     \* where Main stands, "none" when the caller is not Main
    stdout,     \* what Main has written to stdout
    stderr,     \* what Main has written to stderr
    mainret,    \* what Main returned
    rt,         \* a value on its way through json.Marshal and json.Unmarshal, or Nil
    inst        \* two flows used by two goroutines at once, or Nil

vars == <<daf, built, pc, clock, dc, interval, bundle, url, payload, res, now, ret,
          requests, sleeps, readings, firstNow, lastNow, paced, pending,
          startClock, respClock, lastEvent, args, env, mainpc, stdout, stderr,
          mainret, rt, inst>>

\* one flow and its caller
flowVars == <<daf, built, pc, clock, dc, interval, bundle, url, payload, res, now, ret,
              requests, sleeps, readings, firstNow, lastNow, paced, pending,
              startClock, respClock, lastEvent, args, env, mainpc, stdout, stderr,
              mainret>>

cliVars == <<env, mainpc, stdout, stderr, mainret>>

\* what the one flow and its caller never touch
sideVars == <<rt, inst>>

callVars == <<url, payload, res, now, requests, sleeps, readings, firstNow,
              lastNow, paced, pending, startClock, respClock, lastEvent>>

NoReturn == [op |-> "none", val |-> Nil, err |-> Nil]

Return(op, val, err) == [op |-> op, val |-> val, err |-> err]

InitFlow ==
    /\ daf = Nil
    /\ built = Nil
    /\ pc = "init"
    /\ clock \in ClockAfter(0)
    /\ dc = Nil
    /\ interval = 0
    /\ bundle = Nil
    /\ url = ""
    /\ payload = << >>
    /\ res = NoResult
    /\ now = ZeroTime
    /\ ret = NoReturn
    /\ requests = << >>
    /\ sleeps = << >>
    /\ readings = 0
    /\ firstNow = ZeroTime
    /\ lastNow = ZeroTime
    /\ paced = TRUE
    /\ pending = 0
    /\ startClock = ZeroTime
    /\ respClock = ZeroTime
    /\ lastEvent = "none"
    /\ args = Nil
    /\ env = Nil
    /\ mainpc = "none"
    /\ stdout = << >>
    /\ stderr = << >>
    /\ mainret = NoReturn

Init ==
    /\ InitFlow
    /\ rt = Nil
    /\ inst = Nil

\* NewDeviceAuthFlow(opts...), for any options
NewDeviceAuthFlow ==
    /\ pc = "init"
    /\ mainpc = "none"
    /\ \E opts \in OptionSeqs :
          LET d == ApplyAll(opts, NewFlow)
              e == Validate(d)
          IN  /\ built' = d
              /\ IF e # Nil
                 THEN /\ ret' = Return("NewDeviceAuthFlow", Nil, e)
                      /\ UNCHANGED <<daf, pc>>
                 ELSE /\ ret' = Return("NewDeviceAuthFlow", d, Nil)
                      /\ daf' = d
                      /\ pc' = "idle"
    /\ UNCHANGED cliVars
    /\ UNCHANGED sideVars
    /\ UNCHANGED <<args, clock, dc, interval, bundle>>
    /\ UNCHANGED callVars

\* time passes between two calls
Elapse ==
    /\ pc = "idle"
    /\ mainpc # "exit"
    /\ clock' \in ClockAfter(clock) \ {clock}
    /\ UNCHANGED cliVars
    /\ UNCHANGED sideVars
    /\ UNCHANGED <<args, daf, built, pc, dc, interval, bundle, ret>>
    /\ UNCHANGED callVars

\* the bookkeeping of a call that begins
BeginCall ==
    /\ res' = NoResult
    /\ now' = ZeroTime
    /\ requests' = << >>
    /\ sleeps' = << >>
    /\ readings' = 0
    /\ firstNow' = ZeroTime
    /\ lastNow' = ZeroTime
    /\ paced' = TRUE
    /\ pending' = 0
    /\ startClock' = clock
    /\ respClock' = ZeroTime
    /\ lastEvent' = "none"

(***************************************************************************)
(* FetchDeviceCode.                                                        *)
(***************************************************************************)
\* what the device code endpoint may answer
DeviceCodeResults ==
    {HTTPResult(s, b) : s \in Statuses,
                        b \in DeviceCodeBodies \cup ErrorBodies
                              \cup {Object(EmptyObject), InvalidBody}}
    \cup {TransportFailure}

\* the server errors counted in
ClientClassOrAbove(statusCode) == statusCode \div 100 >= 4

\* only the status 403 counted in
ClientClassOnly403(statusCode) == statusCode = 403

\* the server errors taken for client errors
ClientClassOrServer(statusCode) == statusCode \div 100 \in {4, 5}

\* statusCode/100 == 4
ClientClass(statusCode) == statusCode \div 100 = 4

\* a negative number of seconds added as if it were positive
AddSecondsMagnitude(t, n) == t + (IF n < 0 THEN -n ELSE n)

\* now.Add(time.Duration(dc.ExpiresIn) * time.Second)
AddSeconds(t, n) == t + n

\* the outcome of FetchDeviceCode once postForm has returned r and the
\* clock has been read as t
FetchOutcome(r, t) ==
    IF r.err # "nil" THEN [val |-> Nil, err |-> GenericError(r.err)]
    ELSE IF r.statusCode # 200
    THEN IF ClientClass(r.statusCode)
         THEN LET er == UnmarshalErrorResponse(r.resBody)
              IN  IF ~er.ok
                  THEN [val |-> Nil,
                        err |-> GenericError("could not decode device code response body")]
                  ELSE [val |-> Nil, err |-> APIError(r.statusCode, er.v)]
         ELSE [val |-> Nil, err |-> GenericError("device code request was failed")]
    ELSE LET d == UnmarshalDeviceCodeResponse(r.resBody)
         IN  IF ~d.ok
             THEN [val |-> Nil,
                   err |-> GenericError("could not decode device code response body")]
             ELSE [val |-> [d.v EXCEPT !.ExpiresAt = AddSeconds(t, d.v.ExpiresIn)],
                   err |-> Nil]

\* entry of FetchDeviceCode(scope, audience): url and payload
FetchDeviceCode(scope, audience) ==
    /\ pc = "idle"
    /\ BeginCall
    /\ args' = [scope |-> scope, audience |-> audience]
    /\ dc' = Nil
    /\ interval' = 0
    /\ LET u == JoinPath(daf.baseURL, "/oauth/device/code")
       IN  IF ~u.ok
           THEN /\ ret' = Return("FetchDeviceCode", Nil, GenericError("parse"))
                /\ UNCHANGED <<pc, url, payload>>
           ELSE /\ url' = u.url
                /\ payload' = DeviceCodePayload(daf.clientID, scope, audience)
                /\ pc' = "fetch_post"
                /\ ret' = NoReturn
    /\ UNCHANGED <<daf, built, clock, bundle>>

\* the request with the return on err placed before the clock is read
FetchPostReturnOnError ==
    /\ pc = "fetch_post"
    /\ \E r \in DeviceCodeResults, t \in ClockAfter(clock) :
          /\ res' = r
          /\ clock' = t
          /\ respClock' = t
          /\ IF r.err # "nil"
             THEN /\ ret' = Return("FetchDeviceCode", Nil, GenericError(r.err))
                  /\ pc' = "idle"
             ELSE /\ pc' = "fetch_now"
                  /\ UNCHANGED ret
    /\ requests' = Append(requests, Request(url, payload))
    /\ lastEvent' = "post"
    /\ UNCHANGED cliVars
    /\ UNCHANGED sideVars
    /\ UNCHANGED <<args, daf, built, dc, interval, bundle, url, payload, now,
                   sleeps, readings, firstNow, lastNow, paced, pending, startClock>>

\* statusCode, resBody, err := postForm(url, payload)
FetchPost ==
    /\ pc = "fetch_post"
    /\ \E r \in DeviceCodeResults, t \in ClockAfter(clock) :
          /\ res' = r
          /\ clock' = t
          /\ respClock' = t
    /\ requests' = Append(requests, Request(url, payload))
    /\ lastEvent' = "post"
    /\ pc' = "fetch_now"
    /\ UNCHANGED cliVars
    /\ UNCHANGED sideVars
    /\ UNCHANGED <<args, daf, built, dc, interval, bundle, url, payload, now, ret,
                   sleeps, readings, firstNow, lastNow, paced, pending, startClock>>

\* the clock read before the request instead of after the response
FetchNowAtStart ==
    /\ pc = "fetch_now"
    /\ now' = startClock
    /\ readings' = readings + 1
    /\ firstNow' = IF readings = 0 THEN startClock ELSE firstNow
    /\ lastNow' = startClock
    /\ lastEvent' = "now"
    /\ pc' = "fetch_classify"
    /\ UNCHANGED cliVars
    /\ UNCHANGED sideVars
    /\ UNCHANGED <<args, daf, built, clock, dc, interval, bundle, url, payload, res, ret,
                   requests, sleeps, paced, pending, startClock, respClock>>

\* now := daf.timeNow()
FetchNow ==
    /\ pc = "fetch_now"
    /\ now' = clock
    /\ readings' = readings + 1
    /\ firstNow' = IF readings = 0 THEN clock ELSE firstNow
    /\ lastNow' = clock
    /\ lastEvent' = "now"
    /\ pc' = "fetch_classify"
    /\ UNCHANGED cliVars
    /\ UNCHANGED sideVars
    /\ UNCHANGED <<args, daf, built, clock, dc, interval, bundle, url, payload, res, ret,
                   requests, sleeps, paced, pending, startClock, respClock>>

\* the rest of FetchDeviceCode, up to its return
FetchClassify ==
    /\ pc = "fetch_classify"
    /\ LET o == FetchOutcome(res, now)
       IN  /\ ret' = Return("FetchDeviceCode", o.val, o.err)
           /\ bundle' = IF o.err = Nil THEN o.val ELSE bundle
    /\ pc' = "idle"
    /\ UNCHANGED cliVars
    /\ UNCHANGED sideVars
    /\ UNCHANGED <<args, daf, built, clock, dc, interval>>
    /\ UNCHANGED callVars

(***************************************************************************)
(* PollToken.                                                              *)
(***************************************************************************)
\* what the token endpoint may answer
TokenResults ==
    {HTTPResult(s, b) : s \in Statuses,
                        b \in TokenBodies \cup ErrorBodies \cup {InvalidBody}}
    \cup {TransportFailure}

\* an interval that is not read from the bundle
IntervalFixed(d) == 5

\* time.Duration(dc.Interval) * time.Second
IntervalOf(d) == d.Interval

\* a check that never finds the bundle expired
ExpiredNever(t, d) == FALSE

\* Before with the deadline itself counted as before
BeforeOrAt(t, u) == t <= u

\* t.Before(u)
Before(t, u) == t < u

\* the check with the deadline itself not yet expired
ExpiredStrict(t, d) == Before(d.ExpiresAt, t)

\* the check made one interval ahead of the clock
ExpiredAhead(t, d) == ~Before(t + d.Interval, d.ExpiresAt)

\* the expiration check at the head of the loop
Expired(t, d) == ~Before(t, d.ExpiresAt)

\* every decodable client error retried
RetriedAlways(er) == TRUE

\* er.Error == "authorization_pending", the one answer PollToken retries on
Retried(er) == er.Error = "authorization_pending"

\* the branches with a transport failure taken for a reason to try again
TokenOutcomeRetryTransport(r) ==
    IF r.err # "nil"
    THEN [retry |-> TRUE, val |-> Nil, err |-> Nil]
    ELSE IF r.statusCode = 200
    THEN LET t == UnmarshalTokenResponse(r.resBody)
         IN  IF ~t.ok
             THEN [retry |-> FALSE, val |-> Nil,
                   err |-> GenericError("could not decode token response body")]
             ELSE [retry |-> FALSE, val |-> t.v, err |-> Nil]
    ELSE IF ~ClientClass(r.statusCode)
    THEN [retry |-> FALSE, val |-> Nil, err |-> GenericError("token request was failed")]
    ELSE LET er == UnmarshalErrorResponse(r.resBody)
         IN  IF ~er.ok
             THEN [retry |-> FALSE, val |-> Nil,
                   err |-> GenericError("could not decode token response body")]
             ELSE IF ~Retried(er.v)
             THEN [retry |-> FALSE, val |-> Nil, err |-> APIError(r.statusCode, er.v)]
             ELSE [retry |-> TRUE, val |-> Nil, err |-> Nil]

\* what PollToken does with the (statusCode, resBody, err) of one request:
\* return val and err, or go on to sleep
TokenOutcome(r) ==
    IF r.statusCode = 200
    THEN LET t == UnmarshalTokenResponse(r.resBody)
         IN  IF ~t.ok
             THEN [retry |-> FALSE, val |-> Nil,
                   err |-> GenericError("could not decode token response body")]
             ELSE [retry |-> FALSE, val |-> t.v, err |-> Nil]
    ELSE IF ~ClientClass(r.statusCode)
    THEN [retry |-> FALSE, val |-> Nil, err |-> GenericError("token request was failed")]
    ELSE LET er == UnmarshalErrorResponse(r.resBody)
         IN  IF ~er.ok
             THEN [retry |-> FALSE, val |-> Nil,
                   err |-> GenericError("could not decode token response body")]
             ELSE IF ~Retried(er.v)
             THEN [retry |-> FALSE, val |-> Nil, err |-> APIError(r.statusCode, er.v)]
             ELSE [retry |-> TRUE, val |-> Nil, err |-> Nil]

\* a response the provider means as "authorization still pending"
IsPending(r) ==
    /\ r.err = "nil"
    /\ r.statusCode \in 400..499
    /\ r.resBody.valid
    /\ "error" \in DOMAIN r.resBody.obj
    /\ r.resBody.obj["error"] = "authorization_pending"

\* entry of PollToken(dc): interval, url and payload
PollToken ==
    /\ pc = "idle"
    /\ bundle # Nil
    /\ BeginCall
    /\ args' = Nil
    /\ dc' = bundle
    /\ interval' = IntervalOf(bundle)
    /\ LET u == JoinPath(daf.baseURL, "/oauth/token")
       IN  IF ~u.ok
           THEN /\ ret' = Return("PollToken", Nil, GenericError("parse"))
                /\ UNCHANGED <<pc, url, payload>>
           ELSE /\ url' = u.url
                /\ payload' = TokenPayload(bundle.DeviceCode, daf.clientID)
                /\ pc' = "poll_check"
                /\ ret' = NoReturn
    /\ UNCHANGED <<daf, built, clock, bundle>>

\* if !daf.timeNow().Before(dc.ExpiresAt) { return nil, &ExpiredError{...} }
PollCheck ==
    /\ pc = "poll_check"
    /\ readings' = readings + 1
    /\ firstNow' = IF readings = 0 THEN clock ELSE firstNow
    /\ lastNow' = clock
    /\ lastEvent' = "now"
    /\ paced' = (paced /\ (readings = 0 \/ clock = lastNow + dc.Interval))
    /\ IF Expired(clock, dc)
       THEN /\ ret' = Return("PollToken", Nil, ExpiredError(dc.ExpiresIn))
            /\ pc' = "idle"
       ELSE /\ pc' = "poll_post"
            /\ UNCHANGED ret
    /\ UNCHANGED cliVars
    /\ UNCHANGED sideVars
    /\ UNCHANGED <<args, daf, built, clock, dc, interval, bundle, url, payload, res, now,
                   requests, sleeps, pending, startClock, respClock>>

\* statusCode, resBody, err := postForm(url, strings.NewReader(payload))
PollPost ==
    /\ pc = "poll_post"
    /\ Len(requests) < MaxPolls
    /\ \E r \in TokenResults, t \in ClockAfter(clock) :
          /\ res' = r
          /\ clock' = t
          /\ respClock' = t
          /\ pending' = IF IsPending(r) THEN pending + 1 ELSE pending
    /\ requests' = Append(requests, Request(url, payload))
    /\ lastEvent' = "post"
    /\ pc' = "poll_classify"
    /\ UNCHANGED cliVars
    /\ UNCHANGED sideVars
    /\ UNCHANGED <<args, daf, built, dc, interval, bundle, url, payload, now, ret,
                   sleeps, readings, firstNow, lastNow, paced, startClock>>

\* the branches with a cap of three retries added
PollClassifyCapped ==
    /\ pc = "poll_classify"
    /\ LET o == TokenOutcome(res)
       IN  IF o.retry /\ Len(sleeps) < 3
           THEN /\ pc' = "poll_sleep"
                /\ UNCHANGED ret
           ELSE /\ ret' = Return("PollToken", o.val,
                                 IF o.retry THEN GenericError("too many retries") ELSE o.err)
                /\ pc' = "idle"
    /\ UNCHANGED cliVars
    /\ UNCHANGED sideVars
    /\ UNCHANGED <<args, daf, built, clock, dc, interval, bundle>>
    /\ UNCHANGED callVars

\* the branches on statusCode and resBody, up to the return or the sleep
PollClassify ==
    /\ pc = "poll_classify"
    /\ LET o == TokenOutcome(res)
       IN  IF o.retry
           THEN /\ pc' = "poll_sleep"
                /\ UNCHANGED ret
           ELSE /\ ret' = Return("PollToken", o.val, o.err)
                /\ pc' = "idle"
    /\ UNCHANGED cliVars
    /\ UNCHANGED sideVars
    /\ UNCHANGED <<args, daf, built, clock, dc, interval, bundle>>
    /\ UNCHANGED callVars

\* a sleep after which the next request is sent without a new check
PollSleepSkipsCheck ==
    /\ pc = "poll_sleep"
    /\ sleeps' = Append(sleeps, interval)
    /\ lastEvent' = "sleep"
    /\ clock' \in ClockAfter(clock)
    /\ pc' = "poll_post"
    /\ UNCHANGED cliVars
    /\ UNCHANGED sideVars
    /\ UNCHANGED <<args, daf, built, dc, interval, bundle, url, payload, res, now, ret,
                   requests, readings, firstNow, lastNow, paced, pending,
                   startClock, respClock>>

\* a sleep that takes the time slept off the bundle's ExpiresIn
PollSleepSpendsBundle ==
    /\ pc = "poll_sleep"
    /\ sleeps' = Append(sleeps, interval)
    /\ lastEvent' = "sleep"
    /\ clock' \in ClockAfter(clock)
    /\ dc' = [dc EXCEPT !.ExpiresIn = @ - interval]
    /\ pc' = "poll_check"
    /\ UNCHANGED cliVars
    /\ UNCHANGED sideVars
    /\ UNCHANGED <<args, daf, built, interval, bundle, url, payload, res, now, ret,
                   requests, readings, firstNow, lastNow, paced, pending,
                   startClock, respClock>>

\* a sleep that grows with every retry
PollSleepBackoff ==
    /\ pc = "poll_sleep"
    /\ sleeps' = Append(sleeps, interval * (Len(sleeps) + 1))
    /\ lastEvent' = "sleep"
    /\ clock' \in ClockAfter(clock)
    /\ pc' = "poll_check"
    /\ UNCHANGED cliVars
    /\ UNCHANGED sideVars
    /\ UNCHANGED <<args, daf, built, dc, interval, bundle, url, payload, res, now, ret,
                   requests, readings, firstNow, lastNow, paced, pending,
                   startClock, respClock>>

\* daf.timeSleep(interval)
PollSleep ==
    /\ pc = "poll_sleep"
    /\ sleeps' = Append(sleeps, interval)
    /\ lastEvent' = "sleep"
    /\ clock' \in ClockAfter(clock)
    /\ pc' = "poll_check"
    /\ UNCHANGED cliVars
    /\ UNCHANGED sideVars
    /\ UNCHANGED <<args, daf, built, dc, interval, bundle, url, payload, res, now, ret,
                   requests, readings, firstNow, lastNow, paced, pending,
                   startClock, respClock>>

(***************************************************************************)
(* Callers.  A caller of the package calls FetchDeviceCode and PollToken   *)
(* as it likes; Main (cmd.go) calls each once.                             *)
(***************************************************************************)
\* a caller other than Main calls FetchDeviceCode
CallFetchDeviceCode ==
    /\ mainpc = "none"
    /\ \E scope \in Scopes, audience \in Audiences : FetchDeviceCode(scope, audience)
    /\ UNCHANGED cliVars
    /\ UNCHANGED sideVars

\* a DeviceCodeResponse the caller has from elsewhere than this flow
OtherBundles ==
    {[DeviceCode |-> <<"d", "c">>,
      UserCode |-> <<"1", "2", "3">>,
      VerificationURI |-> <<"h", ":", "/", "a">>,
      VerificationURIComplete |-> <<"h", ":", "/", "a", "?", "1">>,
      ExpiresIn |-> 20,
      Interval |-> 5,
      ExpiresAt |-> MaxTime]}

\* a caller other than Main, having called nothing yet, takes a
\* DeviceCodeResponse that does not come from this flow
TakeBundle ==
    /\ mainpc = "none"
    /\ pc = "idle"
    /\ ret.op = "NewDeviceAuthFlow"
    /\ bundle = Nil
    /\ bundle' \in OtherBundles
    /\ UNCHANGED cliVars
    /\ UNCHANGED sideVars
    /\ UNCHANGED <<args, daf, built, pc, clock, dc, interval, ret>>
    /\ UNCHANGED callVars

\* a caller other than Main calls PollToken with the bundle it holds
CallPollToken ==
    /\ mainpc = "none"
    /\ PollToken
    /\ UNCHANGED cliVars
    /\ UNCHANGED sideVars

EnvNames == <<"A0DAF_BASE_URL", "A0DAF_CLIENT_ID", "A0DAF_SCOPE", "A0DAF_AUDIENCE">>

\* os.LookupEnv finds no such variable
Unset(zero) == [ok |-> FALSE, v |-> zero]

\* os.LookupEnv finds the variable, with this value
SetTo(value) == [ok |-> TRUE, v |-> value]

\* the environments Main may be started in
Envs ==
    [A0DAF_BASE_URL : {Unset(""), SetTo(""), SetTo(GoodBaseURL)},
     A0DAF_CLIENT_ID : {Unset(<< >>), SetTo(<< >>), SetTo(<<"i", "d">>)},
     A0DAF_SCOPE : {Unset(<< >>), SetTo(<<"o", " ", "p">>)},
     A0DAF_AUDIENCE : {Unset(<< >>), SetTo(<<"h", ":", "/", "x">>)}]

\* os.LookupEnv(name)
LookupEnv(e, name) == e[name]

\* only the first undefined variable reported
UndefinedEnvsFirst(e) ==
    LET all == SelectSeq(EnvNames, LAMBDA n : ~LookupEnv(e, n).ok)
    IN  IF all = << >> THEN << >> ELSE <<Head(all)>>

\* undefinedEnvs, in the order Main looks the variables up
UndefinedEnvs(e) == SelectSeq(EnvNames, LAMBDA n : ~LookupEnv(e, n).ok)

\* fmt.Errorf("undefined environment variables: %s", strings.Join(..., ", "))
UndefinedError(names) ==
    [type |-> "error", msg |-> "undefined environment variables", names |-> names]

\* a byte that is no part of any UTF-8 encoding, and U+FFFD
InvalidByte == "\\xff"
ReplacementChar == "U+FFFD"

\* the Go string, given byte by byte, holds only valid UTF-8
ValidUTF8(str) == \A i \in DOMAIN str : str[i] # InvalidByte

\* the string member json.Marshal writes for a Go string: each invalid byte
\* becomes U+FFFD
MarshalString(str) ==
    [i \in DOMAIN str |-> IF str[i] = InvalidByte THEN ReplacementChar ELSE str[i]]

\* json.Marshal(token)
MarshalTokenResponse(t) ==
    Object([access_token |-> MarshalString(t.AccessToken),
            refresh_token |-> MarshalString(t.RefreshToken),
            id_token |-> MarshalString(t.IdToken),
            token_type |-> MarshalString(t.TokenType),
            expires_in |-> t.ExpiresIn])

\* an encoding that leaves verification_uri_complete out
MarshalDeviceCodeNoComplete(d) ==
    Object([device_code |-> MarshalString(d.DeviceCode),
            user_code |-> MarshalString(d.UserCode),
            verification_uri |-> MarshalString(d.VerificationURI),
            expires_in |-> d.ExpiresIn,
            interval |-> d.Interval])

\* json.Marshal(dc): ExpiresAt has the tag json:"-" and is left out
MarshalDeviceCodeResponse(d) ==
    Object([device_code |-> MarshalString(d.DeviceCode),
            user_code |-> MarshalString(d.UserCode),
            verification_uri |-> MarshalString(d.VerificationURI),
            verification_uri_complete |-> MarshalString(d.VerificationURIComplete),
            expires_in |-> d.ExpiresIn,
            interval |-> d.Interval])

\* Main, from the --version flag to the construction of the flow
Main ==
    /\ pc = "init"
    /\ mainpc = "none"
    /\ built = Nil
    /\ \E e \in Envs, showVersion \in BOOLEAN :
          LET out == IF showVersion THEN <<"version">> ELSE << >>
              undefinedEnvs == UndefinedEnvs(e)
              d == ApplyAll(<<[opt |-> "WithBaseURL", baseURL |-> LookupEnv(e, "A0DAF_BASE_URL").v],
                              [opt |-> "WithClientID", clientID |-> LookupEnv(e, "A0DAF_CLIENT_ID").v]>>,
                            NewFlow)
          IN  /\ env' = e
              /\ stdout' = out
              /\ IF undefinedEnvs # << >>
                 THEN /\ stderr' = <<UndefinedError(undefinedEnvs)>>
                      /\ mainret' = Return("Main", Nil, UndefinedError(undefinedEnvs))
                      /\ mainpc' = "exit"
                      /\ UNCHANGED <<daf, built, pc, ret>>
                 ELSE IF Validate(d) # Nil
                 THEN /\ built' = d
                      /\ ret' = Return("NewDeviceAuthFlow", Nil, Validate(d))
                      /\ stderr' = <<Validate(d)>>
                      /\ mainret' = Return("Main", Nil, Validate(d))
                      /\ mainpc' = "exit"
                      /\ UNCHANGED <<daf, pc>>
                 ELSE /\ built' = d
                      /\ ret' = Return("NewDeviceAuthFlow", d, Nil)
                      /\ daf' = d
                      /\ pc' = "idle"
                      /\ stderr' = << >>
                      /\ mainpc' = "fetch"
                      /\ UNCHANGED mainret
    /\ UNCHANGED <<args, clock, dc, interval, bundle>>
    /\ UNCHANGED callVars
    /\ UNCHANGED sideVars

\* dc, err := daf.FetchDeviceCode(scope, audience)
MainFetchDeviceCode ==
    /\ mainpc = "fetch"
    /\ FetchDeviceCode(LookupEnv(env, "A0DAF_SCOPE").v, LookupEnv(env, "A0DAF_AUDIENCE").v)
    /\ mainpc' = "fetched"
    /\ UNCHANGED <<env, stdout, stderr, mainret>>
    /\ UNCHANGED sideVars

\* Main once FetchDeviceCode has returned: the error, or the two lines
MainPrintCode ==
    /\ mainpc = "fetched"
    /\ pc = "idle"
    /\ IF ret.err # Nil
       THEN /\ stderr' = Append(stderr, ret.err)
            /\ mainret' = Return("Main", Nil, ret.err)
            /\ mainpc' = "exit"
            /\ UNCHANGED stdout
       ELSE /\ stdout' = stdout \o <<[Access |-> ret.val.VerificationURI],
                                      [Input |-> ret.val.UserCode]>>
            /\ mainpc' = "poll"
            /\ UNCHANGED <<stderr, mainret>>
    /\ UNCHANGED <<env, args, daf, built, pc, clock, dc, interval, bundle, ret>>
    /\ UNCHANGED callVars
    /\ UNCHANGED sideVars

\* token, err := daf.PollToken(dc)
MainPollToken ==
    /\ mainpc = "poll"
    /\ PollToken
    /\ mainpc' = "polled"
    /\ UNCHANGED <<env, stdout, stderr, mainret>>
    /\ UNCHANGED sideVars

\* Main once PollToken has returned: the error, or the token as JSON
MainPrintToken ==
    /\ mainpc = "polled"
    /\ pc = "idle"
    /\ IF ret.err # Nil
       THEN /\ stderr' = Append(stderr, ret.err)
            /\ mainret' = Return("Main", Nil, ret.err)
            /\ UNCHANGED stdout
       ELSE /\ stdout' = Append(stdout, MarshalTokenResponse(ret.val))
            /\ mainret' = Return("Main", Nil, Nil)
            /\ UNCHANGED stderr
    /\ mainpc' = "exit"
    /\ UNCHANGED <<env, args, daf, built, pc, clock, dc, interval, bundle, ret>>
    /\ UNCHANGED callVars
    /\ UNCHANGED sideVars

Next ==
    \/ NewDeviceAuthFlow
    \/ Elapse
    \/ CallFetchDeviceCode
    \/ FetchPost
    \/ FetchNow
    \/ FetchClassify
    \/ CallPollToken
    \/ TakeBundle
    \/ Main
    \/ MainFetchDeviceCode
    \/ MainPrintCode
    \/ MainPollToken
    \/ MainPrintToken
    \/ PollCheck
    \/ PollPost
    \/ PollClassify
    \/ PollSleep

Spec == Init /\ [][Next]_vars

(***************************************************************************)
(* Progress.  Time goes on while postForm waits for its answer.  The       *)
(* goroutine that runs PollToken goes on running, and timeSleep returns:   *)
(* the check, the branches and the sleep are taken whenever they are due.  *)
(* Whether and when postForm returns is up to the provider and the network *)
(* (http.DefaultClient sets no timeout), so nothing is assumed of it.      *)
(***************************************************************************)
\* the clock goes on while the token request is unanswered
PollWait ==
    /\ pc = "poll_post"
    /\ clock' \in ClockAfter(clock) \ {clock}
    /\ UNCHANGED cliVars
    /\ UNCHANGED sideVars
    /\ UNCHANGED <<args, daf, built, pc, dc, interval, bundle, ret>>
    /\ UNCHANGED callVars

\* the caller is Main, which calls FetchDeviceCode and PollToken once each
NextLive ==
    \/ Main
    \/ MainFetchDeviceCode
    \/ FetchPost
    \/ FetchNow
    \/ FetchClassify
    \/ MainPrintCode
    \/ MainPollToken
    \/ MainPrintToken
    \/ PollCheck
    \/ PollPost
    \/ PollWait
    \/ PollClassify
    \/ PollSleep

SpecLive ==
    /\ Init
    /\ [][NextLive]_vars
    /\ WF_vars(PollCheck)
    /\ WF_vars(PollClassify)
    /\ WF_vars(PollSleep)

(***************************************************************************)
(* The two responses through json.Marshal and json.Unmarshal.              *)
(***************************************************************************)
\* Go strings, byte by byte
GoStrings == {<< >>, <<"a", "t">>, <<"a", InvalidByte>>}

TokenResponses ==
    [AccessToken : GoStrings,
     RefreshToken : {<< >>, <<"r", "t">>},
     IdToken : {<<"i", "t">>},
     TokenType : {<<"B">>},
     ExpiresIn : {0, 86400}]

DeviceCodeResponses ==
    [DeviceCode : GoStrings,
     UserCode : {<<"1", "2", "3">>},
     VerificationURI : {<<"h", ":", "/", "a">>},
     VerificationURIComplete : {<<"h", ":", "/", "a", "?", "1">>},
     ExpiresIn : ExpiresInValues,
     Interval : IntervalValues,
     ExpiresAt : {ZeroTime, 0, MaxTime}]

InitRoundTrip ==
    /\ InitFlow
    /\ inst = Nil
    /\ \/ \E t \in TokenResponses :
             rt = [type |-> "TokenResponse", in |-> t, wire |-> Nil, out |-> Nil]
       \/ \E d \in DeviceCodeResponses :
             rt = [type |-> "DeviceCodeResponse", in |-> d, wire |-> Nil, out |-> Nil]

\* json.Marshal of the value
Encode ==
    /\ rt.wire = Nil
    /\ rt' = [rt EXCEPT !.wire = IF rt.type = "TokenResponse"
                                  THEN MarshalTokenResponse(rt.in)
                                  ELSE MarshalDeviceCodeResponse(rt.in)]
    /\ UNCHANGED <<flowVars, inst>>

\* json.Unmarshal of what json.Marshal wrote, into a new value
Decode ==
    /\ rt.wire # Nil
    /\ rt.out = Nil
    /\ rt' = [rt EXCEPT !.out = IF rt.type = "TokenResponse"
                                 THEN UnmarshalTokenResponse(rt.wire).v
                                 ELSE UnmarshalDeviceCodeResponse(rt.wire).v]
    /\ UNCHANGED <<flowVars, inst>>

NextRoundTrip ==
    \/ Encode
    \/ Decode

SpecRoundTrip == InitRoundTrip /\ [][NextRoundTrip]_vars

(***************************************************************************)
(* Two flows, each used by a goroutine of its own that calls               *)
(* FetchDeviceCode and then PollToken.  What a call keeps is in its locals *)
(* and in its flow, inst.f[i]; postForm goes through http.DefaultClient    *)
(* for both.                                                               *)
(***************************************************************************)
Flows == {1, 2}

\* the flow of goroutine i, after NewDeviceAuthFlow
TwoFlow(i) ==
    [NewFlow EXCEPT !.baseURL = GoodBaseURL,
                    !.clientID = IF i = 1 THEN <<"i", "d">> ELSE <<"d", "i">>]

\* what the device code endpoint may answer here
TwoDeviceCodeResults ==
    {HTTPResult(200, b) : b \in {x \in DeviceCodeBodies :
                                    x.obj.expires_in > 0 /\ x.obj.interval > 1}}
    \cup {HTTPResult(403, b) : b \in {x \in ErrorBodies : x.obj.error = "access_denied"}}

\* what the token endpoint may answer here
TwoTokenResults ==
    {HTTPResult(200, b) : b \in TokenBodies}
    \cup {HTTPResult(403, b) : b \in ErrorBodies}
    \cup {TransportFailure}

\* goroutine i about to call FetchDeviceCode
TwoStart(i) ==
    [daf |-> TwoFlow(i), pc |-> "fetch_post", clock |-> 0, dc |-> Nil,
     res |-> NoResult, ret |-> NoReturn, requests |-> << >>, nsleep |-> 0,
     resps |-> << >>, reads |-> << >>]

InitTwo ==
    /\ InitFlow
    /\ clock = 0
    /\ rt = Nil
    /\ inst = [f |-> [i \in Flows |-> TwoStart(i)], lastRes |-> NoResult]

\* statusCode and resBody kept where both goroutines write them
TwoResShared(i) == inst.lastRes

\* statusCode, resBody, err as goroutine i has them
TwoRes(i) == inst.f[i].res

\* FetchDeviceCode of flow i, up to the return of postForm
TwoFetchPost(i) ==
    /\ inst.f[i].pc = "fetch_post"
    /\ LET me == inst.f[i]
           u == JoinPath(me.daf.baseURL, "/oauth/device/code")
           q == Request(u.url, DeviceCodePayload(me.daf.clientID, <<"o", " ", "p">>,
                                                 <<"h", ":", "/", "x">>))
       IN  \E r \in TwoDeviceCodeResults, t \in ClockAfter(me.clock) :
              inst' = [f |-> [inst.f EXCEPT ![i] =
                                 [me EXCEPT !.res = r, !.clock = t,
                                            !.requests = Append(@, q),
                                            !.resps = Append(@, r),
                                            !.pc = "fetch_return"]],
                       lastRes |-> r]
    /\ UNCHANGED <<flowVars, rt>>

\* FetchDeviceCode of flow i, from now := daf.timeNow() to its return;
\* PollToken(dc) follows when there is a bundle
TwoFetchReturn(i) ==
    /\ inst.f[i].pc = "fetch_return"
    /\ LET me == inst.f[i]
           o == FetchOutcome(TwoRes(i), me.clock)
       IN  inst' = [inst EXCEPT !.f[i] =
                       IF o.err = Nil
                       THEN [me EXCEPT !.reads = Append(@, me.clock), !.dc = o.val,
                                       !.pc = "poll_check"]
                       ELSE [me EXCEPT !.reads = Append(@, me.clock),
                                       !.ret = Return("FetchDeviceCode", Nil, o.err),
                                       !.pc = "done"]]
    /\ UNCHANGED <<flowVars, rt>>

\* PollToken of flow i: the expiry check
TwoPollCheck(i) ==
    /\ inst.f[i].pc = "poll_check"
    /\ LET me == inst.f[i]
       IN  inst' = [inst EXCEPT !.f[i] =
                       IF Expired(me.clock, me.dc)
                       THEN [me EXCEPT !.reads = Append(@, me.clock),
                                       !.ret = Return("PollToken", Nil,
                                                      ExpiredError(me.dc.ExpiresIn)),
                                       !.pc = "done"]
                       ELSE [me EXCEPT !.reads = Append(@, me.clock),
                                       !.pc = "poll_post"]]
    /\ UNCHANGED <<flowVars, rt>>

\* PollToken of flow i: postForm
TwoPollPost(i) ==
    /\ inst.f[i].pc = "poll_post"
    /\ Len(inst.f[i].requests) < 1 + MaxTwoPolls
    /\ LET me == inst.f[i]
           u == JoinPath(me.daf.baseURL, "/oauth/token")
           q == Request(u.url, TokenPayload(me.dc.DeviceCode, me.daf.clientID))
       IN  \E r \in TwoTokenResults, t \in ClockAfter(me.clock) :
              inst' = [f |-> [inst.f EXCEPT ![i] =
                                 [me EXCEPT !.res = r, !.clock = t,
                                            !.requests = Append(@, q),
                                            !.resps = Append(@, r),
                                            !.pc = "poll_classify"]],
                       lastRes |-> r]
    /\ UNCHANGED <<flowVars, rt>>

\* PollToken of flow i: the branches, up to the return or the sleep
TwoPollClassify(i) ==
    /\ inst.f[i].pc = "poll_classify"
    /\ LET me == inst.f[i]
           o == TokenOutcome(TwoRes(i))
       IN  inst' = [inst EXCEPT !.f[i] =
                       IF o.retry
                       THEN [me EXCEPT !.pc = "poll_sleep"]
                       ELSE [me EXCEPT !.ret = Return("PollToken", o.val, o.err),
                                       !.pc = "done"]]
    /\ UNCHANGED <<flowVars, rt>>

\* PollToken of flow i: daf.timeSleep(interval)
TwoPollSleep(i) ==
    /\ inst.f[i].pc = "poll_sleep"
    /\ LET me == inst.f[i]
       IN  \E t \in ClockAfter(me.clock) :
              inst' = [inst EXCEPT !.f[i] =
                          [me EXCEPT !.nsleep = @ + 1, !.clock = t, !.pc = "poll_check"]]
    /\ UNCHANGED <<flowVars, rt>>

NextTwo ==
    \/ \E i \in Flows : TwoFetchPost(i)
    \/ \E i \in Flows : TwoFetchReturn(i)
    \/ \E i \in Flows : TwoPollCheck(i)
    \/ \E i \in Flows : TwoPollPost(i)
    \/ \E i \in Flows : TwoPollClassify(i)
    \/ \E i \in Flows : TwoPollSleep(i)

SpecTwo == InitTwo /\ [][NextTwo]_vars

(***************************************************************************)
(* Properties.                                                             *)
(***************************************************************************)
\* a PollToken call is running or was the last call to run
InPoll == dc # Nil

\* the last call to finish was PollToken and nothing runs
PollReturned == pc = "idle" /\ ret.op = "PollToken"

\* the last call to finish was FetchDeviceCode and nothing runs
FetchReturned == pc = "idle" /\ ret.op = "FetchDeviceCode"

TokenURL == GoodBaseURL \o "/oauth/token"

DeviceCodeURL == GoodBaseURL \o "/oauth/device/code"

\* the step sends a token request
TokenRequestStep ==
    /\ Len(requests') = Len(requests) + 1
    /\ requests'[Len(requests')].url = TokenURL

\* C1: when the first clock reading of a PollToken call is at or after the
\* bundle's ExpiresAt, the call has returned ExpiredError with the bundle's
\* ExpiresIn and has sent no request and slept not once.
C1_ExpiredAtEntry ==
    (InPoll /\ readings >= 1 /\ firstNow >= dc.ExpiresAt)
        => /\ PollReturned
           /\ ret.val = Nil
           /\ ret.err = ExpiredError(bundle.ExpiresIn)
           /\ requests = << >>
           /\ sleeps = << >>

\* a call that found a bundle with a deadline 20 s after its creation expired
\* at its first reading, the reading being the deadline itself
C1_Witness ==
    /\ PollReturned
    /\ readings = 1
    /\ dc.ExpiresIn = 20
    /\ firstNow = dc.ExpiresAt
    /\ ret.err = ExpiredError(20)
    /\ requests = << >>

\* C2 (state part): once an iteration of PollToken has read a time at or
\* after ExpiresAt, the call has returned ExpiredError with the bundle's
\* ExpiresIn and that iteration has sent no request.
C2_ExpiredReturns ==
    (InPoll /\ readings >= 1 /\ lastNow >= dc.ExpiresAt)
        => /\ PollReturned
           /\ ret.err = ExpiredError(dc.ExpiresIn)
           /\ lastEvent = "now"
           /\ Len(requests) = readings - 1

\* C2 (step part): a token request is sent only as the next effect after a
\* clock reading of the same iteration that was strictly before ExpiresAt.
C2_RequestAfterCheck ==
    TokenRequestStep
        => /\ InPoll
           /\ lastEvent = "now"
           /\ readings = Len(requests) + 1
           /\ lastNow < dc.ExpiresAt

\* C2: every token request directly follows a clock reading of its own
\* iteration that is strictly before ExpiresAt, and a reading at or after
\* ExpiresAt ends the call with ExpiredError before any further request.
C2_CheckBeforeRequest == []C2_ExpiredReturns /\ [][C2_RequestAfterCheck]_vars

\* a call expired at its third reading, which hit the deadline exactly,
\* after two requests
C2_Witness ==
    /\ PollReturned
    /\ readings = 3
    /\ lastNow = dc.ExpiresAt
    /\ Len(requests) = 2
    /\ ret.err = ExpiredError(dc.ExpiresIn)

\* the members of a token response body as PollToken's result has them
TokenOf(o) ==
    [AccessToken |-> IF "access_token" \in DOMAIN o THEN o.access_token ELSE << >>,
     RefreshToken |-> IF "refresh_token" \in DOMAIN o THEN o.refresh_token ELSE << >>,
     IdToken |-> IF "id_token" \in DOMAIN o THEN o.id_token ELSE << >>,
     TokenType |-> IF "token_type" \in DOMAIN o THEN o.token_type ELSE << >>,
     ExpiresIn |-> IF "expires_in" \in DOMAIN o THEN o.expires_in ELSE 0]

\* the members of an error body as an APIError carries them
ErrorOf(o) ==
    [Error |-> IF "error" \in DOMAIN o THEN o.error ELSE "",
     ErrorDescription |-> IF "error_description" \in DOMAIN o
                          THEN o.error_description ELSE ""]

\* the answers of a PollToken call so far were all authorization_pending
\* but the last, which had status 200, and that answer has been dealt with
PendingsThenOK ==
    /\ InPoll
    /\ pc # "poll_classify"
    /\ res.err = "nil"
    /\ res.statusCode = 200
    /\ pending = Len(requests) - 1

\* N sleeps of the bundle's Interval each, N the number of pending answers
SleptPerPending ==
    /\ Len(sleeps) = pending
    /\ \A i \in 1..Len(sleeps) : sleeps[i] = bundle.Interval

\* C3 as stated: after N authorization_pending answers and one 200 answer,
\* none of the N+1 readings reaching ExpiresAt, PollToken has sent N+1
\* requests, slept N times for Interval seconds and returned the token of
\* the last answer with a nil error.
C3_Original ==
    PendingsThenOK
        => /\ PollReturned
           /\ Len(requests) = pending + 1
           /\ SleptPerPending
           /\ ret.err = Nil
           /\ ret.val = TokenOf(res.resBody.obj)

\* C3 amended: the same, for a 200 answer whose body can be decoded.
C3_PendingsThenToken ==
    (PendingsThenOK /\ res.resBody.valid)
        => /\ PollReturned
           /\ Len(requests) = pending + 1
           /\ SleptPerPending
           /\ ret.err = Nil
           /\ ret.val = TokenOf(res.resBody.obj)

\* two pending answers, then a token, with an interval of 1 s
C3_Witness ==
    /\ PollReturned
    /\ pending = 2
    /\ Len(requests) = 3
    /\ res.statusCode = 200
    /\ ret.err = Nil
    /\ ret.val.AccessToken = <<"a", "t">>
    /\ sleeps = <<1, 1>>

\* a 4xx answer with a decodable body whose error is not
\* authorization_pending, dealt with
Rejected ==
    /\ InPoll
    /\ pc # "poll_classify"
    /\ res.err = "nil"
    /\ res.statusCode \in 400..499
    /\ res.resBody.valid
    /\ ErrorOf(res.resBody.obj).Error # "authorization_pending"

\* C4: a 4xx answer whose error is not authorization_pending makes
\* PollToken return APIError with that status and that body at once: no
\* sleep and no request follows the answer.
C4_RejectedAtOnce ==
    Rejected
        => /\ PollReturned
           /\ ret.val = Nil
           /\ ret.err = APIError(res.statusCode, ErrorOf(res.resBody.obj))
           /\ lastEvent = "post"
           /\ Len(sleeps) = Len(requests) - 1

\* access_denied with status 499 as the answer to the third request
C4_Witness ==
    /\ PollReturned
    /\ Len(requests) = 3
    /\ Len(sleeps) = 2
    /\ res.statusCode = 499
    /\ ret.err.type = "APIError"
    /\ ret.err.StatusCode = 499
    /\ ret.err.Body.Error = "access_denied"

\* C5 (step part): a second or later token request is sent only when the
\* answer to the request before it was a 4xx authorization_pending.
C5_RetryOnlyPending ==
    (TokenRequestStep /\ Len(requests) >= 1) => IsPending(res)

\* C5 (state part): any other answer, once dealt with, has ended the call.
C5_OtherwiseReturns ==
    (InPoll /\ Len(requests) >= 1 /\ ~IsPending(res) /\ pc # "poll_classify")
        => PollReturned /\ lastEvent = "post"

\* C5: authorization_pending with a 4xx status is the only answer after
\* which PollToken sends another request; every other answer ends the call.
C5_OnlyPendingRetried == []C5_OtherwiseReturns /\ [][C5_RetryOnlyPending]_vars

\* a second request has gone out, and a call has ended on a status 500
\* carrying an authorization_pending body
C5_Witness ==
    /\ PollReturned
    /\ Len(requests) = 2
    /\ res.statusCode = 500
    /\ res.resBody.valid
    /\ ErrorOf(res.resBody.obj).Error = "authorization_pending"
    /\ ret.err.type = "error"

\* the scenario of C6 so far: Interval 5, ExpiresIn 20, the first reading
\* 20 s before ExpiresAt, each later reading 5 s after the one before, and
\* every answer authorization_pending
Scenario20 ==
    /\ InPoll
    /\ readings >= 1
    /\ dc.Interval = 5
    /\ dc.ExpiresIn = 20
    /\ dc.ExpiresAt = firstNow + 20
    /\ paced
    /\ pending = Len(requests)

\* C6: in that scenario PollToken goes on through four pending answers and
\* returns ExpiredError{20} at its fifth reading; no fifth request is sent.
C6_FourPendingThenExpired ==
    Scenario20
        => /\ readings <= 5
           /\ Len(requests) <= 4
           /\ readings <= 4 => pc # "idle"
           /\ readings = 5 => /\ PollReturned
                               /\ ret.val = Nil
                               /\ ret.err = ExpiredError(20)
                               /\ Len(requests) = 4
                               /\ pending = 4
                               /\ sleeps = <<5, 5, 5, 5>>

\* the scenario run to its end
C6_Witness ==
    /\ Scenario20
    /\ PollReturned
    /\ readings = 5
    /\ lastNow = firstNow + 20
    /\ Len(requests) = 4
    /\ ret.err = ExpiredError(20)

\* FetchDeviceCode has returned after an answer with status 200
FetchedOK ==
    /\ FetchReturned
    /\ res.err = "nil"
    /\ res.statusCode = 200

OneDeviceCodeRequest ==
    /\ Len(requests) = 1
    /\ requests[1].method = "POST"
    /\ requests[1].url = daf.baseURL \o "/oauth/device/code"

\* C8: after one request to /oauth/device/code answered with a status in
\* 400..499 and a decodable body, FetchDeviceCode returns no bundle and an
\* APIError with that status and the body's error and error_description.
C8_FetchAPIError ==
    (FetchReturned /\ res.err = "nil" /\ res.statusCode \in 400..499
                   /\ res.resBody.valid)
        => /\ ret.val = Nil
           /\ ret.err = APIError(res.statusCode, ErrorOf(res.resBody.obj))
           /\ OneDeviceCodeRequest

\* access_denied with status 499
C8_Witness ==
    /\ FetchReturned
    /\ res.statusCode = 499
    /\ ret.val = Nil
    /\ ret.err.type = "APIError"
    /\ ret.err.StatusCode = 499
    /\ ret.err.Body.Error = "access_denied"
    /\ Len(requests) = 1

\* the returned bundle has the six members of the answer's body
BundleMatchesBody ==
    LET o == res.resBody.obj
        b == ret.val
    IN  /\ b # Nil
        /\ b.DeviceCode = (IF "device_code" \in DOMAIN o THEN o.device_code ELSE << >>)
        /\ b.UserCode = (IF "user_code" \in DOMAIN o THEN o.user_code ELSE << >>)
        /\ b.VerificationURI =
              (IF "verification_uri" \in DOMAIN o THEN o.verification_uri ELSE << >>)
        /\ b.VerificationURIComplete =
              (IF "verification_uri_complete" \in DOMAIN o
               THEN o.verification_uri_complete ELSE << >>)
        /\ b.ExpiresIn = (IF "expires_in" \in DOMAIN o THEN o.expires_in ELSE 0)
        /\ b.Interval = (IF "interval" \in DOMAIN o THEN o.interval ELSE 0)

\* C9 as stated: after a 200 answer FetchDeviceCode returns a nil error and
\* a bundle whose six fields are those of the body, having sent exactly one
\* POST to {baseURL}/oauth/device/code.
C9_Original ==
    FetchedOK
        => /\ ret.err = Nil
           /\ BundleMatchesBody
           /\ OneDeviceCodeRequest

\* C9 amended: the same, for a 200 answer whose body can be decoded.
C9_FetchBundle ==
    (FetchedOK /\ res.resBody.valid)
        => /\ ret.err = Nil
           /\ BundleMatchesBody
           /\ OneDeviceCodeRequest

\* a bundle with expires_in 20 and interval 5, now held by the caller
C9_Witness ==
    /\ FetchedOK
    /\ ret.err = Nil
    /\ ret.val.DeviceCode = <<"d", "c">>
    /\ ret.val.UserCode = <<"1", "2", "3">>
    /\ ret.val.ExpiresIn = 20
    /\ ret.val.Interval = 5
    /\ bundle = ret.val
    /\ Len(requests) = 1

\* C10 (construction fails): when the options leave the base URL or the
\* client ID empty, NewDeviceAuthFlow has returned an error and no flow.
C10_RejectsIncomplete ==
    (built # Nil /\ (built.baseURL = "" \/ built.clientID = << >>))
        => /\ daf = Nil
           /\ ret.op = "NewDeviceAuthFlow"
           /\ ret.val = Nil
           /\ ret.err # Nil

\* C10 (a flow is complete): a returned flow has a base URL and a client ID.
C10_Complete ==
    daf # Nil => /\ daf.baseURL # ""
                 /\ daf.clientID # << >>
                 /\ daf = built

\* C10 (a flow is kept): no step changes a returned flow.
C10_Kept == daf # Nil => daf' = daf

\* C10: construction fails exactly when the options leave the base URL or
\* the client ID empty, and a returned flow has both non-empty and keeps
\* them through every later FetchDeviceCode and PollToken call.
C10_FlowConfigured ==
    [](C10_RejectsIncomplete /\ C10_Complete) /\ [][C10_Kept]_vars

\* a flow built from three options, the first of them overridden, that has
\* served a FetchDeviceCode and a PollToken call
C10_Witness ==
    /\ daf # Nil
    /\ daf.baseURL = GoodBaseURL
    /\ daf.clientID = <<"i", "d">>
    /\ daf.timeNow = "stub"
    /\ PollReturned
    /\ Len(requests) = 2

\* a construction that failed for the lack of a client ID
C10_WitnessRejected ==
    /\ daf = Nil
    /\ built # Nil
    /\ built.baseURL = GoodBaseURL
    /\ built.clientID = << >>
    /\ ret.err = GenericError("ClientID is not given, use WithClientID()")

\* C11 (state part): a PollToken call that has entered its loop has not
\* returned as long as its latest reading is before ExpiresAt and all its
\* answers were authorization_pending; put the other way round, a call
\* leaves the loop only on a reading at or after ExpiresAt or on an answer
\* that is not authorization_pending, however many requests it has sent.
C11_OnlyTwoWaysOut ==
    (InPoll /\ readings >= 1 /\ lastNow < dc.ExpiresAt /\ pending = Len(requests))
        => pc \in {"poll_post", "poll_classify", "poll_sleep", "poll_check"}

\* C11 (step part): the loop goes round whatever the number of requests: a
\* pending answer leads to the sleep, the sleep to the check, a check before
\* ExpiresAt to the request.
C11_LoopGoesRound ==
    /\ (pc = "poll_classify" /\ IsPending(res)) => pc' = "poll_sleep"
    /\ pc = "poll_sleep" => (pc' = "poll_check" /\ Len(sleeps') = Len(sleeps) + 1)
    /\ (pc = "poll_check" /\ clock < dc.ExpiresAt) => pc' = "poll_post"
    /\ pc = "poll_post" => (pc' = "poll_classify" /\ Len(requests') = Len(requests) + 1)

\* C11: PollToken has no retry cap of its own; while every answer is
\* authorization_pending and every reading is before ExpiresAt it goes on
\* polling and does not return.
C11_NoRetryCap == []C11_OnlyTwoWaysOut /\ [][C11_LoopGoesRound]_vars

\* a call that got five pending answers to five requests and is about to
\* sleep for the fifth time
C11_Witness ==
    /\ InPoll
    /\ pc = "poll_sleep"
    /\ Len(requests) = 5
    /\ pending = 5
    /\ Len(sleeps) = 4
    /\ lastNow < dc.ExpiresAt

\* the last answer of a PollToken call has been dealt with
AnswerDealtWith ==
    /\ InPoll
    /\ Len(requests) >= 1
    /\ pc # "poll_classify"

\* the call ended on its last answer: nothing was slept or sent after it
EndedOnAnswer ==
    /\ PollReturned
    /\ ret.val = Nil
    /\ lastEvent = "post"
    /\ Len(sleeps) = Len(requests) - 1

\* C16: an answer whose status is neither 200 nor in 400..499 ends
\* PollToken at once with an error that is neither an APIError nor an
\* ExpiredError; no sleep and no request follows it.
C16_OtherStatusFails ==
    (AnswerDealtWith /\ res.statusCode # 200 /\ res.statusCode \notin 400..499)
        => /\ EndedOnAnswer
           /\ ret.err # Nil
           /\ ret.err.type \notin {"APIError", "ExpiredError"}

\* a 500 carrying an authorization_pending body as the third answer
C16_Witness ==
    /\ EndedOnAnswer
    /\ Len(requests) = 3
    /\ res.statusCode = 500
    /\ res.resBody.valid
    /\ ErrorOf(res.resBody.obj).Error = "authorization_pending"
    /\ ret.err = GenericError("token request was failed")

\* C17: a transport failure of a token request (status 0, no body, an
\* error) ends PollToken at once with a non-nil error and no token; no
\* sleep and no request follows it.
C17_TransportFailureFails ==
    (AnswerDealtWith /\ res.err # "nil")
        => /\ res.statusCode = 0
           /\ res.resBody = Nil
           /\ EndedOnAnswer
           /\ ret.err # Nil

\* a transport failure of the second request
C17_Witness ==
    /\ EndedOnAnswer
    /\ Len(requests) = 2
    /\ Len(sleeps) = 1
    /\ res = TransportFailure
    /\ ret.err.type = "error"

\* the error PollToken returns for a body it cannot decode
DecodeError == GenericError("could not decode token response body")

\* C18: a 4xx or a 200 answer whose body cannot be decoded ends PollToken
\* with a decode error, not an APIError, and no token; no sleep and no
\* request follows it.
C18_UndecodableFails ==
    (AnswerDealtWith /\ res.err = "nil"
                     /\ (res.statusCode = 200 \/ res.statusCode \in 400..499)
                     /\ ~res.resBody.valid)
        => /\ EndedOnAnswer
           /\ ret.err = DecodeError

\* an undecodable body with status 403 as the second answer
C18_Witness ==
    /\ EndedOnAnswer
    /\ Len(requests) = 2
    /\ res.statusCode = 403
    /\ ~res.resBody.valid
    /\ ret.err = DecodeError

\* an undecodable body with status 200
C18_Witness200 ==
    /\ EndedOnAnswer
    /\ res.statusCode = 200
    /\ ~res.resBody.valid
    /\ ret.err = DecodeError

\* C19 (state part): every sleep of a PollToken call lasted the bundle's
\* Interval, and there are never more sleeps than pending answers.
C19_SleepsOfInterval ==
    /\ \A i \in 1..Len(sleeps) : InPoll /\ sleeps[i] = bundle.Interval
    /\ Len(sleeps) <= pending
    /\ Len(sleeps) <= Len(requests)
    /\ PollReturned => lastEvent # "sleep"

\* C19 (step part): a sleep comes directly after an authorization_pending
\* answer, and the next thing after a sleep is the expiration check.
C19_SleepOrder ==
    /\ Len(sleeps') = Len(sleeps) + 1
          => /\ lastEvent = "post"
             /\ IsPending(res)
             /\ Len(requests) = Len(sleeps) + 1
    /\ lastEvent = "sleep"
          => /\ pc = "poll_check"
             /\ lastEvent' = "now"
             /\ readings' = readings + 1

\* C19: every sleep lasts exactly bundle.Interval seconds, follows an
\* authorization_pending answer directly and is followed directly by the
\* next expiration check; none comes before the first request or after a
\* terminal answer.
C19_SleepDiscipline == []C19_SleepsOfInterval /\ [][C19_SleepOrder]_vars

\* three sleeps of 1 s, then access_denied
C19_Witness ==
    /\ PollReturned
    /\ sleeps = <<1, 1, 1>>
    /\ bundle.Interval = 1
    /\ Len(requests) = 4
    /\ ret.err.type = "APIError"

\* FetchDeviceCode is running
InFetch == pc \in {"fetch_post", "fetch_now", "fetch_classify"}

\* the result does not depend on the clock reading
ClockUnused ==
    \A t \in 0..MaxTime :
        /\ ret.val = FetchOutcome(res, t).val
        /\ ret.err = FetchOutcome(res, t).err

\* one request, then one reading taken when the answer had arrived, no sleep
OneRequestOneReading ==
    /\ Len(requests) = 1
    /\ readings = 1
    /\ lastEvent = "now"
    /\ lastNow = respClock
    /\ sleeps = << >>
    /\ (res.err # "nil" \/ res.statusCode # 200) => ClockUnused

\* the steps of FetchDeviceCode come in the order request, reading, outcome
C20_FetchOrder ==
    /\ pc = "fetch_post"
          => /\ pc' = "fetch_now"
             /\ readings = 0
             /\ Len(requests') = 1
    /\ pc = "fetch_now"
          => /\ pc' = "fetch_classify"
             /\ readings' = 1
             /\ requests' = requests
             /\ ret' = NoReturn
    /\ pc = "fetch_classify" => (pc' = "idle" /\ readings' = 1 /\ requests' = requests)
    /\ InFetch => sleeps' = << >>

\* C20 as stated: every FetchDeviceCode call performs exactly one request,
\* then exactly one clock reading before the outcome is examined, on every
\* outcome; it never sleeps, and the reading matters on the 200 path only.
C20_Original == [](FetchReturned => OneRequestOneReading) /\ [][C20_FetchOrder]_vars

\* the request URL can be formed from the flow's base URL
URLFormed == JoinPath(daf.baseURL, "/oauth/device/code").ok

\* C20 amended: the same, for every call whose request URL can be formed
\* from the base URL; a call on a base URL that does not parse returns an
\* error with no request sent and the clock not read.
C20_FetchOneRequestOneReading ==
    /\ []((FetchReturned /\ URLFormed) => OneRequestOneReading)
    /\ []((FetchReturned /\ ~URLFormed)
            => (requests = << >> /\ readings = 0 /\ sleeps = << >> /\ ret.err # Nil))
    /\ [][C20_FetchOrder]_vars

\* a call that ended on a transport failure which took 5 s
C20_Witness ==
    /\ FetchReturned
    /\ res = TransportFailure
    /\ respClock = startClock + 5
    /\ OneRequestOneReading
    /\ ret.err = GenericError("request was failed")

\* the form the provider is meant to decode from a device code request
DeviceCodeForm(clientID, scope, audience) ==
    <<[key |-> <<"c", "l", "i", "e", "n", "t", "_", "i", "d">>, value |-> clientID],
      [key |-> <<"s", "c", "o", "p", "e">>, value |-> scope],
      [key |-> <<"a", "u", "d", "i", "e", "n", "c", "e">>, value |-> audience]>>

\* a device code request has been sent by the running (or last) call
DeviceCodeRequestSent == args # Nil /\ requests # << >>

\* C13: the form body FetchDeviceCode sends decodes, on the provider's side,
\* to exactly client_id = the flow's client ID, scope = the given scope and
\* audience = the given audience, and no other key.
C13_FormDecodesToArguments ==
    DeviceCodeRequestSent
        => ParseQuery(requests[1].payload)
             = DeviceCodeForm(daf.clientID, args.scope, args.audience)

\* C13 for the client IDs made of unreserved letters only: the scope and the
\* audience, which are escaped, arrive as given whatever they contain
C13_EscapedArgumentsArrive ==
    (DeviceCodeRequestSent /\ \A i \in 1..Len(daf.clientID) : daf.clientID[i] \in Unreserved)
        => ParseQuery(requests[1].payload)
             = DeviceCodeForm(daf.clientID, args.scope, args.audience)

\* a request whose scope holds an ampersand, decoded to what was given
C13_WitnessEscaped ==
    /\ DeviceCodeRequestSent
    /\ daf.clientID = <<"i", "d">>
    /\ args.scope = <<"a", "&", "b">>
    /\ ParseQuery(requests[1].payload)
         = DeviceCodeForm(<<"i", "d">>, <<"a", "&", "b">>, <<"h", ":", "/", "x">>)


(***************************************************************************)
(* C15, C12: Main and the JSON form of the two responses                   *)
(***************************************************************************)
\* Main was started and has looked the four variables up
MainStarted == env # Nil

\* the variables the environment of Main does not define
Undefined == {n \in {EnvNames[i] : i \in 1..Len(EnvNames)} : ~env[n].ok}

\* the names an error of Main lists
Listed(err) == {err.names[i] : i \in 1..Len(err.names)}

\* C15: when Main is started with one or more of A0DAF_BASE_URL,
\* A0DAF_CLIENT_ID, A0DAF_SCOPE, A0DAF_AUDIENCE undefined, it returns an
\* error that names every undefined variable and no other, each once, and
\* it has constructed no flow and sent no request.
C15_UndefinedAllReported ==
    (MainStarted /\ Undefined # {}) =>
        /\ mainret.op = "Main"
        /\ mainret.err # Nil
        /\ mainret.err.msg = "undefined environment variables"
        /\ Listed(mainret.err) = Undefined
        /\ Len(mainret.err.names) = Cardinality(Undefined)
        /\ stderr = <<mainret.err>>
        /\ daf = Nil
        /\ built = Nil
        /\ ret = NoReturn
        /\ requests = << >>
        /\ readings = 0
        /\ mainpc = "exit"

\* Main has returned with three of the four variables undefined
C15_Witness ==
    /\ MainStarted
    /\ Cardinality(Undefined) = 3
    /\ env.A0DAF_CLIENT_ID.ok
    /\ mainret.op = "Main"
    /\ Len(mainret.err.names) = 3


\* the value has been encoded and decoded again
RoundTripDone == rt # Nil /\ rt.out # Nil

\* the members of the wire format of the value under way
WireFields ==
    IF rt.type = "TokenResponse"
    THEN {"AccessToken", "RefreshToken", "IdToken", "TokenType", "ExpiresIn"}
    ELSE {"DeviceCode", "UserCode", "VerificationURI", "VerificationURIComplete",
          "ExpiresIn", "Interval"}

\* every string of the value under way is valid UTF-8
ValidStrings == \A f \in WireFields \ {"ExpiresIn", "Interval"} : ValidUTF8(rt.in[f])

\* C12 as stated: the value decoded equals the value encoded in every field,
\* ExpiresAt of a DeviceCodeResponse included.
C12_Original == RoundTripDone => rt.out = rt.in

\* C12: a TokenResponse or DeviceCodeResponse whose strings are valid UTF-8,
\* encoded and decoded again, equals the original in every field of the wire
\* format; ExpiresAt of a DeviceCodeResponse is not encoded and decodes as
\* the zero time whatever it was.
C12_RoundTrip ==
    RoundTripDone =>
        /\ DOMAIN rt.out = DOMAIN rt.in
        /\ ValidStrings => \A f \in WireFields : rt.out[f] = rt.in[f]
        /\ rt.type = "DeviceCodeResponse" => rt.out.ExpiresAt = ZeroTime

\* a DeviceCodeResponse with an expiry has gone through both conversions
C12_Witness ==
    /\ RoundTripDone
    /\ rt.type = "DeviceCodeResponse"
    /\ ValidStrings
    /\ rt.in.DeviceCode = <<"a", "t">>
    /\ rt.in.ExpiresAt = MaxTime
    /\ rt.out.DeviceCode = <<"a", "t">>


(***************************************************************************)
(* C14: two flows at once                                                  *)
(***************************************************************************)
\* PollToken(d) run alone against these answers and clock readings: what it
\* returns and how many requests and sleeps it makes
RECURSIVE SoloPoll(_, _, _, _, _)
SoloPoll(d, resps, reads, nreq, nsleep) ==
    IF reads = << >>
    THEN [done |-> FALSE, ret |-> NoReturn, nreq |-> nreq, nsleep |-> nsleep]
    ELSE IF Expired(Head(reads), d)
    THEN [done |-> TRUE, ret |-> Return("PollToken", Nil, ExpiredError(d.ExpiresIn)),
          nreq |-> nreq, nsleep |-> nsleep]
    ELSE IF resps = << >>
    THEN [done |-> FALSE, ret |-> NoReturn, nreq |-> nreq, nsleep |-> nsleep]
    ELSE LET o == TokenOutcome(Head(resps))
         IN  IF o.retry
             THEN SoloPoll(d, Tail(resps), Tail(reads), nreq + 1, nsleep + 1)
             ELSE [done |-> TRUE, ret |-> Return("PollToken", o.val, o.err),
                   nreq |-> nreq + 1, nsleep |-> nsleep]

\* FetchDeviceCode and then PollToken run alone against these answers and
\* clock readings
SoloRun(resps, reads) ==
    IF resps = << >> \/ reads = << >>
    THEN [done |-> FALSE, ret |-> NoReturn, nreq |-> 0, nsleep |-> 0]
    ELSE LET o == FetchOutcome(Head(resps), Head(reads))
         IN  IF o.err # Nil
             THEN [done |-> TRUE, ret |-> Return("FetchDeviceCode", Nil, o.err),
                   nreq |-> 1, nsleep |-> 0]
             ELSE SoloPoll(o.val, Tail(resps), Tail(reads), 1, 0)

\* flow i has returned what it returns alone, after as many requests and sleeps
AsAlone(i) ==
    LET me == inst.f[i]
        solo == SoloRun(me.resps, me.reads)
    IN  /\ solo.done
        /\ me.ret = solo.ret
        /\ Len(me.requests) = solo.nreq
        /\ me.nsleep = solo.nsleep

\* every flow that has returned did as it does alone
EachAsAlone == \A i \in Flows : inst.f[i].pc = "done" => AsAlone(i)

\* the step is one flow's: the other flow is as it was
OneFlowSteps == \E i \in Flows : \A j \in Flows \ {i} : inst'.f[j] = inst.f[j]

\* C14: two flows running FetchDeviceCode and PollToken at once share no
\* mutable state: every step changes one flow only, and under every
\* interleaving each flow returns what it returns when run alone against
\* the same answers and clock readings, after the same number of requests
\* and of sleeps.
C14_NoSharedState ==
    /\ []EachAsAlone
    /\ [][OneFlowSteps]_vars

\* both flows have returned: one its token after a pending answer, the other
\* an ExpiredError after two sleeps, having seen a later answer than the first
C14_Witness ==
    /\ \A i \in Flows : inst.f[i].pc = "done"
    /\ inst.f[1].ret.val # Nil
    /\ inst.f[1].nsleep = 1
    /\ inst.f[2].ret.err.type = "ExpiredError"
    /\ inst.f[2].nsleep = 2
    /\ inst.lastRes # inst.f[1].res


(***************************************************************************)
(* C22: PollToken writes neither to its argument nor to the flow           *)
(***************************************************************************)
\* PollToken is running
PollRunning == pc \in {"poll_check", "poll_post", "poll_classify", "poll_sleep"}

\* the bundle PollToken was given and the flow are what the caller handed
\* over: the bundle it holds and the flow NewDeviceAuthFlow built
C22_AsHandedOver == (PollRunning \/ PollReturned) => (dc = bundle /\ daf = built)

\* no step of PollToken, its entry and its return included, changes the
\* bundle or the flow
C22_StepsKeep ==
    [][(PollRunning \/ (pc = "idle" /\ dc' # dc))
          => (bundle' = bundle /\ daf' = daf /\ (PollRunning => dc' = dc))]_vars

\* C22: PollToken never changes the DeviceCodeResponse it is given nor the
\* flow: at every step of the call and after its return, whatever the
\* outcome and the number of iterations, every field of the bundle and the
\* flow's baseURL, clientID, timeNow and timeSleep are as before the call.
C22_BundleAndFlowKept == []C22_AsHandedOver /\ C22_StepsKeep

\* PollToken has returned a token after three iterations
C22_Witness ==
    /\ PollReturned
    /\ ret.err = Nil
    /\ Len(sleeps) = 2
    /\ Len(requests) = 3
    /\ dc = bundle
    /\ dc.ExpiresIn > 0


(***************************************************************************)
(* C23: the counts of a PollToken call                                     *)
(***************************************************************************)
\* the token URL of the flow can be formed
TokenURLFormed == JoinPath(daf.baseURL, "/oauth/token").ok

\* C23 (counts): during a PollToken call and after its return there are
\* never more sleeps than requests nor more requests than clock readings,
\* and each of the two differences is 0 or 1.
C23_Counts ==
    (PollRunning \/ PollReturned)
        => /\ Len(sleeps) <= Len(requests)
           /\ Len(requests) <= readings
           /\ Len(requests) - Len(sleeps) \in {0, 1}
           /\ readings - Len(requests) \in {0, 1}

\* C23 (order): in a PollToken call a clock reading comes first or directly
\* after a sleep, a request directly after a reading, a sleep directly
\* after a request.
C23_Order ==
    PollRunning
        => /\ readings' = readings + 1 => lastEvent \in {"none", "sleep"}
           /\ Len(requests') = Len(requests) + 1 => lastEvent = "now"
           /\ Len(sleeps') = Len(sleeps) + 1 => lastEvent = "post"
           /\ (readings' - readings) + (Len(requests') - Len(requests))
                 + (Len(sleeps') - Len(sleeps)) \in {0, 1}

\* the counts of a returned call that went into the loop
ReturnCounts ==
    IF ret.err.type = "ExpiredError"
    THEN /\ Len(requests) = Len(sleeps)
         /\ Len(requests) = readings - 1
    ELSE /\ Len(requests) = readings
         /\ Len(requests) = Len(sleeps) + 1

\* C23 as stated: on every return of PollToken the counts are those of an
\* ExpiredError or those of another outcome.
C23_Original == []C23_Counts /\ [][C23_Order]_vars /\ [](PollReturned => ReturnCounts)

\* on return: the counts of the loop when the token URL could be formed,
\* and no reading, request or sleep at all when it could not
C23_OnReturn ==
    PollReturned
        => IF TokenURLFormed
           THEN ReturnCounts
           ELSE /\ ret.val = Nil
                /\ ret.err.type = "error"
                /\ readings = 0
                /\ requests = << >>
                /\ sleeps = << >>

\* C23: in every PollToken call clock readings, token requests and sleeps
\* alternate in the order reading, request, sleep, so that sleeps <=
\* requests <= readings with differences of 0 or 1; on a return from the
\* loop an ExpiredError has requests = sleeps = readings - 1 and every other
\* outcome requests = readings = sleeps + 1; a call whose token URL cannot
\* be formed returns an error before the loop with all three counts 0.
C23_Counting == []C23_Counts /\ [][C23_Order]_vars /\ []C23_OnReturn

\* a call has returned ExpiredError at its third reading after two requests
\* and two sleeps
C23_Witness ==
    /\ PollReturned
    /\ TokenURLFormed
    /\ ret.err.type = "ExpiredError"
    /\ readings = 3
    /\ Len(requests) = 2
    /\ Len(sleeps) = 2

\* a call on a flow whose base URL does not parse has returned
C23_WitnessNoLoop ==
    /\ PollReturned
    /\ ~TokenURLFormed
    /\ readings = 0


(***************************************************************************)
(* C24: a bundle that is expired when it is made                           *)
(***************************************************************************)
\* the expires_in of the body of the last answer, 0 when it has none
AnsweredExpiresIn ==
    IF "expires_in" \in DOMAIN res.resBody.obj THEN res.resBody.obj.expires_in ELSE 0

\* C24 (FetchDeviceCode): a 200 answer with a decodable body whose
\* expires_in is 0 or less still gives a bundle, with that ExpiresIn and an
\* ExpiresAt at or before the time the call sampled.
C24_BundleAllTheSame ==
    (FetchedOK /\ res.resBody.valid /\ AnsweredExpiresIn <= 0)
        => /\ ret.err = Nil
           /\ ret.val # Nil
           /\ bundle = ret.val
           /\ ret.val.ExpiresIn = AnsweredExpiresIn
           /\ ret.val.ExpiresAt = lastNow + AnsweredExpiresIn
           /\ ret.val.ExpiresAt <= lastNow
           /\ lastNow <= clock

\* C24 (PollToken): a call on a bundle with ExpiresIn 0 or less gets no
\* further than its first check, and returns ExpiredError with that
\* ExpiresIn after one clock reading, no request and no sleep.
C24_ExpiredWithoutRequest ==
    /\ (PollRunning /\ dc.ExpiresIn <= 0)
          => /\ pc = "poll_check"
             /\ readings = 0
             /\ dc.ExpiresAt <= clock
    /\ (PollReturned /\ dc.ExpiresIn <= 0)
          => /\ ret.val = Nil
             /\ ret.err = ExpiredError(dc.ExpiresIn)
             /\ readings = 1
             /\ dc.ExpiresAt <= firstNow
    /\ ((PollRunning \/ PollReturned) /\ dc.ExpiresIn <= 0)
          => /\ requests = << >>
             /\ sleeps = << >>

\* C24: when the device code endpoint answers 200 with an expires_in of 0
\* or less, FetchDeviceCode still returns a bundle, whose ExpiresAt is at or
\* before the sampled time, and a following PollToken on that bundle
\* returns ExpiredError with that expires_in without sending a token request.
C24_BornExpired == C24_BundleAllTheSame /\ C24_ExpiredWithoutRequest

\* PollToken has returned on a bundle made with expires_in -5, some time
\* after the bundle was made
C24_Witness ==
    /\ PollReturned
    /\ dc = bundle
    /\ dc.ExpiresIn = -5
    /\ firstNow > dc.ExpiresAt + 5
    /\ ret.err = ExpiredError(-5)
    /\ requests = << >>

\* PollToken has returned on a bundle made with expires_in 0 at the very
\* time the bundle was made
C24_WitnessZero ==
    /\ PollReturned
    /\ dc.ExpiresIn = 0
    /\ firstNow = dc.ExpiresAt
    /\ ret.err = ExpiredError(0)


(***************************************************************************)
(* C21: PollToken returns in a terminal state, and returns once the clock  *)
(* has reached ExpiresAt                                                   *)
(***************************************************************************)
\* the terminal state PollToken has returned in
Terminal ==
    \/ /\ ret.err = Nil                          \* SUCCESS
       /\ ret.val # Nil
       /\ res.statusCode = 200
    \/ /\ ret.err = ExpiredError(dc.ExpiresIn)   \* EXPIRED
       /\ ret.val = Nil
       /\ lastNow >= dc.ExpiresAt
    \/ /\ ret.err.type = "APIError"              \* REJECTED
       /\ ret.val = Nil
       /\ ClientClass(res.statusCode)
       /\ ~IsPending(res)
    \/ /\ ret.err.type = "error"                 \* FAILED
       /\ ret.val = Nil
       /\ ~IsPending(res)

\* PollToken returns in a terminal state only
ReturnsTerminal == PollReturned => Terminal

\* postForm is waiting for the answer to a token request (one that the
\* model's bound on the requests of a call lets be answered)
AwaitingAnswer == pc = "poll_post" /\ Len(requests) < MaxPolls

\* PollToken is running, the clock has reached ExpiresAt, and the call is
\* not held up by the model's bound on its requests
PastDeadline ==
    /\ PollRunning
    /\ clock >= dc.ExpiresAt
    /\ ~(pc = "poll_post" /\ Len(requests) >= MaxPolls)

====
